---- MODULE Spec2Model ----
(***************************************************************************)
(* Model of schema_demo.py: EvaluatedSchema (schema classification, the    *)
(* two-pass create()) and deep_merge.                                      *)
(*                                                                         *)
(* A Python dict is an insertion-ordered sequence of items                 *)
(*   [t |-> "dict", items |-> << [k |-> key, v |-> node], ... >>]          *)
(* a schema leaf is the triple (field, handler, kwargs)                    *)
(*   [t |-> "leaf", field |-> class, handler |-> name, kwargs |-> mapping] *)
(* and a generated value is [t |-> "str" | "list", v |-> n].               *)
(***************************************************************************)
EXTENDS Integers, Sequences, FiniteSets, TLC

\* ------------------------------------------------------------------ bounds
\* generators return one of MaxValue distinct values
MaxValue == 2
\* create() calls one caller makes on the evaluator
MaxCreates == 2

\* ------------------------------------------------------- classes and leaves
\* mutant: Fieldset classified as lazy too
LAZY_TYPES_WithFieldset == {"LazyField", "Fieldset"}
LAZY_TYPES == {"LazyField"}
\* mutant: Fieldset left out of the eager classes
EAGER_TYPES_FieldOnly == {"Field"}
EAGER_TYPES == {"Field", "Fieldset"}
\* the holder classes SchemaNode admits in a leaf triple
FieldTypes == {"Field", "Fieldset", "LazyField"}

\* isinstance(node[0], target_types)
IsInstance(field, target_types) == field \in target_types

Leaf(field, handler, kwargs) ==
    [t |-> "leaf", field |-> field, handler |-> handler, kwargs |-> kwargs]

\* the leaf triples schemas are built from (those of the module-level demo)
CreatorLeaf == Leaf("Field", "full_name", [gender |-> "FEMALE"])
ApiKeysLeaf == Leaf("Fieldset", "token_hex", [i |-> 3])
EmailLeaf == Leaf("LazyField", "custom_email", [domains |-> <<"mimesis.name">>])
NoDomainEmailLeaf == Leaf("LazyField", "custom_email", [domains |-> <<>>])

SchemaLeaves == {CreatorLeaf, ApiKeysLeaf, EmailLeaf, NoDomainEmailLeaf}

\* ------------------------------------------------------------ Python dicts
EmptyDict == [t |-> "dict", items |-> <<>>]

IsDict(x) == x.t = "dict"

RECURSIVE ItemIndex(_, _)
\* position of key k in an item list, 0 when absent
ItemIndex(items, k) ==
    IF items = <<>> THEN 0
    ELSE IF items[Len(items)].k = k THEN Len(items)
    ELSE ItemIndex(SubSeq(items, 1, Len(items) - 1), k)

DictHas(d, k) == ItemIndex(d.items, k) # 0

\* d.get(k, default)
DictGet(d, k, default) ==
    IF DictHas(d, k) THEN d.items[ItemIndex(d.items, k)].v ELSE default

\* d[k] = v : in place when the key exists, appended otherwise
DictSet(d, k, v) ==
    IF DictHas(d, k)
    THEN [d EXCEPT !.items[ItemIndex(d.items, k)].v = v]
    ELSE [d EXCEPT !.items = Append(@, [k |-> k, v |-> v])]

DictKeys(d) == {d.items[i].k : i \in 1..Len(d.items)}

\* the outcome of a call that raised
Raise == [t |-> "raise"]

\* dict(x): a shallow copy of a dict; a generated value is no mapping
PyDict(x) == IF IsDict(x) THEN x ELSE Raise

\* ------------------------------------------------------- _extract_schema
RECURSIVE extract_schema(_, _)
RECURSIVE extract_items(_, _)

RECURSIVE extract_items_Pruned(_, _)
\* mutant: a group is kept only when something was extracted from it
extract_items_Pruned(items, target_types) ==
    IF items = <<>> THEN <<>>
    ELSE LET node_name == Head(items).k
             node == Head(items).v
             rest == extract_items_Pruned(Tail(items), target_types)
             sub == IF IsDict(node) THEN extract_schema(node, target_types) ELSE node
         IN  IF IsDict(node)
             THEN IF sub.items = <<>> THEN rest
                  ELSE <<[k |-> node_name, v |-> sub]>> \o rest
             ELSE IF IsInstance(node.field, target_types)
             THEN <<[k |-> node_name, v |-> node]>> \o rest
             ELSE rest

RECURSIVE extract_items_Flat(_, _)
\* mutant: groups are not descended into, only the leaves of the level are kept
extract_items_Flat(items, target_types) ==
    IF items = <<>> THEN <<>>
    ELSE LET node_name == Head(items).k
             node == Head(items).v
             rest == extract_items_Flat(Tail(items), target_types)
         IN  IF IsDict(node)
             THEN <<[k |-> node_name, v |-> EmptyDict]>> \o rest
             ELSE IF IsInstance(node.field, target_types)
             THEN <<[k |-> node_name, v |-> node]>> \o rest
             ELSE rest

\* the for loop of _extract_schema over schema.items()
extract_items(items, target_types) ==
    IF items = <<>> THEN <<>>
    ELSE LET node_name == Head(items).k
             node == Head(items).v
             rest == extract_items(Tail(items), target_types)
         IN  IF IsDict(node)
             THEN <<[k |-> node_name, v |-> extract_schema(node, target_types)]>> \o rest
             ELSE IF IsInstance(node.field, target_types)
             THEN <<[k |-> node_name, v |-> node]>> \o rest
             ELSE rest

extract_schema(schema, target_types) ==
    [t |-> "dict", items |-> extract_items(schema.items, target_types)]

\* ------------------------------------------------------------- deep_merge
RECURSIVE deep_merge(_, _)
RECURSIVE merge_items(_, _)

\* the for loop of deep_merge over d2.items(), result being the accumulator
merge_items(result, items) ==
    IF result.t = "raise" THEN Raise
    ELSE IF items = <<>> THEN result
    ELSE LET key == Head(items).k
             value == Head(items).v
         IN  IF IsDict(value)
             THEN LET node == DictGet(result, key, EmptyDict)
                      sub == deep_merge(node, value)
                  IN  IF sub.t = "raise" THEN Raise
                      ELSE merge_items(DictSet(result, key, sub), Tail(items))
             ELSE merge_items(DictSet(result, key, value), Tail(items))

RECURSIVE update_items(_, _)
update_items(result, items) ==
    IF result.t = "raise" THEN Raise
    ELSE IF items = <<>> THEN result
    ELSE update_items(DictSet(result, Head(items).k, Head(items).v), Tail(items))

\* mutant: a shallow merge, result.update(d2)
deep_merge_Update(d1, d2) == update_items(PyDict(d1), d2.items)

deep_merge(d1, d2) == merge_items(PyDict(d1), d2.items)

\* ------------------------------------------------- the generator holders
\* the string a generator returns, numbered; str and list values
StrValue(n) == [t |-> "str", v |-> n]
ListValue(n) == [t |-> "list", v |-> n]
GeneratedValues == 1..MaxValue

\* custom_email_handler(random, *, domains, _eager_data, **_kwargs):
\* name = _eager_data["owner"]["creator"]; the address is built from the
\* name (StrValue(MaxValue + n) stands for the address made from name n)
custom_email_handler(kwargs) ==
    IF ~({"domains", "_eager_data"} \subseteq DOMAIN kwargs) THEN {Raise}
    ELSE LET data == kwargs["_eager_data"]
             owner == DictGet(data, "owner", Raise)
             name == IF IsDict(owner) THEN DictGet(owner, "creator", Raise)
                     ELSE Raise
         IN  IF name.t # "str" THEN {Raise}
             ELSE IF kwargs["domains"] = <<>> THEN {Raise}
             ELSE {StrValue(MaxValue + name.v)}

\* field(handler, **kwargs): what one invocation of a holder can give.
\* The mimesis providers behind Field and Fieldset take no _eager_data
\* keyword; they return any value of their type, or fail.
Invoke(field, handler, kwargs) ==
    IF field = "LazyField" THEN custom_email_handler(kwargs)
    ELSE IF "_eager_data" \in DOMAIN kwargs THEN {Raise}
    ELSE IF field = "Fieldset" THEN {ListValue(n) : n \in GeneratedValues} \cup {Raise}
    ELSE {StrValue(n) : n \in GeneratedValues} \cup {Raise}

\* ------------------------------------------------- the two evaluation walks
RECURSIVE leaf_items(_, _)
\* the leaves of a schema in the order the recursive walk of
\* _evaluate_eager / _evaluate_lazy reaches them, each with its path
leaf_items(items, path) ==
    IF items = <<>> THEN <<>>
    ELSE LET node_name == Head(items).k
             node == Head(items).v
             rest == leaf_items(Tail(items), path)
         IN  IF IsDict(node)
             THEN leaf_items(node.items, Append(path, node_name)) \o rest
             ELSE <<[path |-> Append(path, node_name), node |-> node]>> \o rest

leaf_calls(schema) == leaf_items(schema.items, <<>>)

\* the keyword arguments of the call at line 65: field(handler, **kwargs)
eager_kwargs(kwargs) == kwargs

\* mutant: the eager results are not passed on
lazy_kwargs_Bare(kwargs, existing_results) == kwargs

\* the keyword arguments of the call at lines 80-82:
\* field(handler, _eager_data=existing_results, **kwargs)
lazy_kwargs(kwargs, existing_results) ==
    ("_eager_data" :> existing_results) @@ kwargs

RECURSIVE evaluate_items(_, _)
\* the results dict the walk builds when its invocations return the values
\* `returned`, in order
evaluate_items(items, returned) ==
    IF items = <<>> THEN <<>>
    ELSE LET node_name == Head(items).k
             node == Head(items).v
             n == IF IsDict(node) THEN Len(leaf_calls(node)) ELSE 1
             value == IF IsDict(node)
                      THEN [t |-> "dict",
                            items |-> evaluate_items(node.items, SubSeq(returned, 1, n))]
                      ELSE returned[1]
         IN  <<[k |-> node_name, v |-> value]>>
               \o evaluate_items(Tail(items), SubSeq(returned, n + 1, Len(returned)))

evaluate_eager(schema, returned) ==
    [t |-> "dict", items |-> evaluate_items(schema.items, returned)]

evaluate_lazy(schema, returned) ==
    [t |-> "dict", items |-> evaluate_items(schema.items, returned)]

\* ------------------------------------------------------ schemas and trees
\* the orders in which a dict can hold the keys of a key set
KeyOrders(keys) ==
    {ks \in UNION {[1..n -> keys] : n \in 0..Cardinality(keys)} :
        \A i, j \in 1..Len(ks) : i # j => ks[i] # ks[j]}

\* the dicts over the keys whose values are nodes
Dicts(keys, nodes) ==
    UNION {{[t |-> "dict",
             items |-> [i \in 1..Len(ks) |-> [k |-> ks[i], v |-> f[i]]]] :
                f \in [1..Len(ks) -> nodes]} : ks \in KeyOrders(keys)}

TopKeys == {"owner", "pk"}
InnerKeys == {"creator", "email"}

\* schemas of the shape of the demo: leaves and one level of groups
Schemas == Dicts(TopKeys, SchemaLeaves \cup Dicts(InnerKeys, SchemaLeaves))

\* the layout of the demo, "pk" a leaf and "owner" a group, in every key order
DemoSchemas ==
    {s \in Dicts(TopKeys, {CreatorLeaf, EmailLeaf}
                            \cup Dicts(InnerKeys, {CreatorLeaf, EmailLeaf})) :
        \A i \in 1..Len(s.items) : (s.items[i].k = "owner") <=> IsDict(s.items[i].v)}

\* ------------------------------------------------------------------ state
Callers == {"c1", "c2"}
None == [t |-> "none"]

VARIABLES
    schema,         \* the schema handed to EvaluatedSchema(schema)
    eager_schema,   \* self.eager_schema
    lazy_schema,    \* self.lazy_schema
    pc,             \* where each caller's create() stands
    ncreate,        \* create() calls each caller has started
    calls,          \* the generator invocations of each caller's current create()
    eager_results,  \* create's local eager_results
    lazy_results,   \* create's local lazy_results
    out,            \* what each caller's create() returned, or Raise
    fn,             \* pure functions: the function applied, "" before
    arg,            \* pure functions: its arguments
    res             \* pure functions: its result

vars == <<schema, eager_schema, lazy_schema, pc, ncreate, calls,
          eager_results, lazy_results, out, fn, arg, res>>

evaluator == <<schema, eager_schema, lazy_schema>>
pure == <<fn, arg, res>>
running == <<pc, ncreate, calls, eager_results, lazy_results, out>>

\* EvaluatedSchema.__init__
Construct(s) ==
    /\ schema = s
    /\ eager_schema = extract_schema(s, EAGER_TYPES)
    /\ lazy_schema = extract_schema(s, LAZY_TYPES)

Idle ==
    /\ pc = [c \in Callers |-> "idle"]
    /\ calls = [c \in Callers |-> <<>>]
    /\ eager_results = [c \in Callers |-> None]
    /\ lazy_results = [c \in Callers |-> None]
    /\ out = [c \in Callers |-> None]

NoPure == fn = "" /\ arg = None /\ res = None

\* one caller uses the evaluator, any schema
Init ==
    /\ \E s \in Schemas : Construct(s)
    /\ Idle
    /\ ncreate = [c \in Callers |-> IF c = "c1" THEN 0 ELSE MaxCreates]
    /\ NoPure

\* the values the invocations of one pass returned, in order
Returned(c, pass) ==
    LET made == SelectSeq(calls[c], LAMBDA e : e.pass = pass)
    IN  [i \in 1..Len(made) |-> made[i].ret]

\* mutant: the exception is swallowed and the walk goes on
Propagate_Swallowed(ret, pass) == pass

\* an exception leaves create() at once
Propagate(ret, pass) == IF ret.t = "raise" THEN "failed" ELSE pass

\* mutant: the eager results are kept on the shared evaluator, where another
\* caller's create() overwrites them
existing_results_Shared(c) ==
    LET others == {d \in Callers \ {c} : eager_results[d].t = "dict"}
    IN  IF others = {} THEN eager_results[c]
        ELSE eager_results[CHOOSE d \in others : TRUE]

\* the results a lazy leaf of caller c is handed: the local eager_results
existing_results(c) == eager_results[c]

\* a caller calls create()
Create(c) ==
    /\ pc[c] \in {"idle", "done", "failed"}
    /\ ncreate[c] < MaxCreates
    /\ ncreate' = [ncreate EXCEPT ![c] = @ + 1]
    /\ pc' = [pc EXCEPT ![c] = "eager"]
    /\ calls' = [calls EXCEPT ![c] = <<>>]
    /\ eager_results' = [eager_results EXCEPT ![c] = None]
    /\ lazy_results' = [lazy_results EXCEPT ![c] = None]
    /\ out' = [out EXCEPT ![c] = None]
    /\ UNCHANGED <<evaluator, pure>>

\* _evaluate_eager invokes its next leaf
InvokeEager(c) ==
    /\ pc[c] = "eager"
    /\ Len(Returned(c, "eager")) < Len(leaf_calls(eager_schema))
    /\ LET leaf == leaf_calls(eager_schema)[Len(Returned(c, "eager")) + 1]
           kwargs == eager_kwargs(leaf.node.kwargs)
       IN  \E ret \in Invoke(leaf.node.field, leaf.node.handler, kwargs) :
             /\ calls' = [calls EXCEPT ![c] = Append(@,
                    [pass |-> "eager", path |-> leaf.path, node |-> leaf.node,
                     kwargs |-> kwargs, ret |-> ret])]
             /\ pc' = [pc EXCEPT ![c] = Propagate(ret, "eager")]
             /\ out' = [out EXCEPT ![c] = IF pc'[c] = "failed" THEN Raise ELSE @]
    /\ UNCHANGED <<evaluator, pure, ncreate, eager_results, lazy_results>>

\* _evaluate_eager returns, create binds eager_results (line 51)
ReturnEager(c) ==
    /\ pc[c] = "eager"
    /\ Len(Returned(c, "eager")) = Len(leaf_calls(eager_schema))
    /\ eager_results' = [eager_results EXCEPT
                           ![c] = evaluate_eager(eager_schema, Returned(c, "eager"))]
    /\ pc' = [pc EXCEPT ![c] = "lazy"]
    /\ UNCHANGED <<evaluator, pure, ncreate, calls, lazy_results, out>>

\* _evaluate_lazy invokes its next leaf
InvokeLazy(c) ==
    /\ pc[c] = "lazy"
    /\ Len(Returned(c, "lazy")) < Len(leaf_calls(lazy_schema))
    /\ LET leaf == leaf_calls(lazy_schema)[Len(Returned(c, "lazy")) + 1]
           kwargs == lazy_kwargs(leaf.node.kwargs, existing_results(c))
       IN  \E ret \in Invoke(leaf.node.field, leaf.node.handler, kwargs) :
             /\ calls' = [calls EXCEPT ![c] = Append(@,
                    [pass |-> "lazy", path |-> leaf.path, node |-> leaf.node,
                     kwargs |-> kwargs, ret |-> ret])]
             /\ pc' = [pc EXCEPT ![c] = Propagate(ret, "lazy")]
             /\ out' = [out EXCEPT ![c] = IF pc'[c] = "failed" THEN Raise ELSE @]
    /\ UNCHANGED <<evaluator, pure, ncreate, eager_results, lazy_results>>

\* _evaluate_lazy returns, create binds lazy_results (line 52)
ReturnLazy(c) ==
    /\ pc[c] = "lazy"
    /\ Len(Returned(c, "lazy")) = Len(leaf_calls(lazy_schema))
    /\ lazy_results' = [lazy_results EXCEPT
                          ![c] = evaluate_lazy(lazy_schema, Returned(c, "lazy"))]
    /\ pc' = [pc EXCEPT ![c] = "merge"]
    /\ UNCHANGED <<evaluator, pure, ncreate, calls, eager_results, out>>

\* return deep_merge(eager_results, lazy_results) (line 53)
Merge(c) ==
    /\ pc[c] = "merge"
    /\ out' = [out EXCEPT ![c] = deep_merge(eager_results[c], lazy_results[c])]
    /\ pc' = [pc EXCEPT ![c] = IF out'[c].t = "raise" THEN "failed" ELSE "done"]
    /\ UNCHANGED <<evaluator, pure, ncreate, calls, eager_results, lazy_results>>

Next ==
    \E c \in Callers :
        \/ Create(c)
        \/ InvokeEager(c)
        \/ ReturnEager(c)
        \/ InvokeLazy(c)
        \/ ReturnLazy(c)
        \/ Merge(c)

Spec == Init /\ [][Next]_vars

\* two callers, one create() each, interleaved invocation by invocation
InitConc ==
    /\ \E s \in DemoSchemas : Construct(s)
    /\ Idle
    /\ ncreate = [c \in Callers |-> MaxCreates - 1]
    /\ NoPure

SpecConc == InitConc /\ [][Next]_vars

\* ---------------------------------------- the pure functions on their own
TargetTypes == SUBSET FieldTypes

\* the values of the trees handed to deep_merge on its own
MergeValues == {StrValue(1), StrValue(2)}
MergeTrees == Dicts(TopKeys, MergeValues \cup Dicts(InnerKeys, MergeValues))

\* the function to apply and its arguments
PureInput(a) ==
    \/ \E s \in Schemas, tt \in TargetTypes :
            a = [f |-> "extract", schema |-> s, types |-> tt]
    \/ \E s \in Schemas : a = [f |-> "classify", schema |-> s]
    \/ \E d1, d2 \in MergeTrees : a = [f |-> "merge", d1 |-> d1, d2 |-> d2]

InitPure ==
    /\ Construct(EmptyDict)
    /\ Idle
    /\ ncreate = [c \in Callers |-> MaxCreates]
    /\ fn = ""
    /\ PureInput(arg)
    /\ res = None

\* _extract_schema(schema, target_types)
ApplyExtract ==
    /\ fn = "" /\ arg.f = "extract"
    /\ fn' = "extract"
    /\ res' = extract_schema(arg.schema, arg.types)
    /\ UNCHANGED <<evaluator, running, arg>>

\* the two schemas __init__ extracts, merged back
ApplyClassify ==
    /\ fn = "" /\ arg.f = "classify"
    /\ fn' = "classify"
    /\ res' = deep_merge(extract_schema(arg.schema, EAGER_TYPES),
                         extract_schema(arg.schema, LAZY_TYPES))
    /\ UNCHANGED <<evaluator, running, arg>>

\* deep_merge(d1, d2)
ApplyMerge ==
    /\ fn = "" /\ arg.f = "merge"
    /\ fn' = "merge"
    /\ res' = deep_merge(arg.d1, arg.d2)
    /\ UNCHANGED <<evaluator, running, arg>>

NextPure == ApplyExtract \/ ApplyClassify \/ ApplyMerge

SpecPure == InitPure /\ [][NextPure]_vars

\* --------------------------------------------------- reading the trees
RECURSIVE AsMap(_)
\* a tree as Python compares it: the mapping, whatever the insertion order
AsMap(x) ==
    IF x.t = "dict"
    THEN [t |-> "dict", m |-> [k \in DictKeys(x) |-> AsMap(DictGet(x, k, None))]]
    ELSE x

RECURSIVE Shape(_)
\* the key structure of a tree: its groups and, under each, its keys
Shape(x) ==
    IF x.t = "dict"
    THEN [t |-> "dict", m |-> [k \in DictKeys(x) |-> Shape(DictGet(x, k, None))]]
    ELSE [t |-> "leaf"]

RECURSIVE At(_, _)
\* the node of a tree at a path, None where the path leaves the tree
At(x, path) ==
    IF path = <<>> THEN x
    ELSE IF x.t = "dict" /\ DictHas(x, Head(path))
    THEN At(DictGet(x, Head(path), None), Tail(path))
    ELSE None

RECURSIVE LeafPathsFrom(_, _)
LeafPathsFrom(x, path) ==
    IF x.t = "dict"
    THEN UNION {LeafPathsFrom(DictGet(x, k, None), Append(path, k)) : k \in DictKeys(x)}
    ELSE {path}

\* the paths of the leaves of a tree
LeafPaths(x) == LeafPathsFrom(x, <<>>)

RECURSIVE Skeleton(_)
\* the groups of a tree, leaves left out
Skeleton(x) ==
    LET groups == {k \in DictKeys(x) : DictGet(x, k, None).t = "dict"}
    IN  [k \in groups |-> Skeleton(DictGet(x, k, None))]

IsLazyLeaf(node) == node.t = "leaf" /\ node.field = "LazyField"
IsEagerLeaf(node) == node.t = "leaf" /\ node.field \in {"Field", "Fieldset"}

LazyPaths == {p \in LeafPaths(schema) : IsLazyLeaf(At(schema, p))}
EagerPaths == {p \in LeafPaths(schema) : IsEagerLeaf(At(schema, p))}

\* the invocations of caller c's current create() made for the leaf at path p
CallsAt(c, p) == {i \in 1..Len(calls[c]) : calls[c][i].path = p}

\* ------------------------------------------------------------------ claims

\* C1: every lazy leaf, at any depth, is invoked with _eager_data bound to
\* the complete eager-results tree of the same create() call: the tree from
\* the root, holding at every eager leaf path the value that leaf returned
\* in this call and nothing at any lazy leaf path; no eager leaf is invoked
\* with _eager_data.
C1_EagerContext ==
    \A c \in Callers : \A i \in 1..Len(calls[c]) :
        LET e == calls[c][i]
        IN  IF IsLazyLeaf(e.node)
            THEN /\ "_eager_data" \in DOMAIN e.kwargs
                 /\ LET ctx == e.kwargs["_eager_data"]
                    IN  /\ ctx.t = "dict"
                        /\ Skeleton(ctx) = Skeleton(schema)
                        /\ LeafPaths(ctx) = EagerPaths
                        /\ \A p \in LazyPaths : At(ctx, p).t = "none"
                        /\ \A p \in EagerPaths :
                             \E j \in CallsAt(c, p) :
                                /\ j < i
                                /\ At(ctx, p) = calls[c][j].ret
            ELSE "_eager_data" \notin DOMAIN e.kwargs

\* C1 witness: a lazy leaf nested in a group was invoked, after an eager leaf
\* and after a lazy leaf of the root that returned a value in the same pass
C1_Witness ==
    \E c \in Callers : \E i, j, k \in 1..Len(calls[c]) :
        /\ IsLazyLeaf(calls[c][i].node) /\ Len(calls[c][i].path) = 2
        /\ IsLazyLeaf(calls[c][j].node) /\ j < i /\ calls[c][j].ret.t = "str"
        /\ IsLazyLeaf(calls[c][j].node) /\ Len(calls[c][j].path) = 1
        /\ IsEagerLeaf(calls[c][k].node)

\* C2: no lazy leaf is invoked before every eager leaf of the whole schema
\* has been invoked and has returned a value, whatever the key order.
C2_EagerBeforeLazy ==
    \A c \in Callers : \A i \in 1..Len(calls[c]) :
        IsLazyLeaf(calls[c][i].node) =>
            /\ \A p \in EagerPaths :
                 \E j \in CallsAt(c, p) : j < i /\ calls[c][j].ret.t # "raise"
            /\ \A j \in 1..Len(calls[c]) : IsEagerLeaf(calls[c][j].node) => j < i

\* C2 witness: a lazy leaf that comes first in the key order of its group was
\* invoked, the eager leaves being its later sibling and a leaf of the root
C2_Witness ==
    \E c \in Callers : \E i \in 1..Len(calls[c]) :
        /\ IsLazyLeaf(calls[c][i].node)
        /\ schema.items[1].v.t = "dict"
        /\ Len(schema.items[1].v.items) = 2
        /\ calls[c][i].path = <<schema.items[1].k, schema.items[1].v.items[1].k>>
        /\ IsEagerLeaf(schema.items[1].v.items[2].v)
        /\ Len(schema.items) = 2
        /\ IsEagerLeaf(schema.items[2].v)

\* C4: create() is all-or-nothing: an invocation that fails (a lazy generator
\* that misses its key in the eager context included) is the last invocation
\* of its create() call, is made once, and the call ends with the failure and
\* with no result tree; a result tree is returned only by a call none of
\* whose invocations failed.
C4_AllOrNothing ==
    \A c \in Callers :
        /\ \A i \in 1..Len(calls[c]) :
              LET e == calls[c][i]
              IN  /\ e.ret.t = "raise" =>
                        /\ i = Len(calls[c])
                        /\ pc[c] = "failed"
                        /\ out[c] = Raise
                        /\ CallsAt(c, e.path) = {i}
                  /\ (IsLazyLeaf(e.node) /\ "_eager_data" \in DOMAIN e.kwargs
                        /\ At(e.kwargs["_eager_data"], <<"owner", "creator">>).t = "none")
                        => e.ret.t = "raise"
        /\ pc[c] = "failed" <=> out[c] = Raise
        /\ out[c].t = "dict" =>
              /\ pc[c] = "done"
              /\ \A i \in 1..Len(calls[c]) : calls[c][i].ret.t # "raise"

\* C4 witness: a lazy generator failed on a key absent from the eager
\* context after eager leaves had returned values, and create() failed
C4_Witness ==
    \E c \in Callers : \E i, j \in 1..Len(calls[c]) :
        /\ pc[c] = "failed"
        /\ IsLazyLeaf(calls[c][i].node)
        /\ calls[c][i].node.kwargs.domains # <<>>
        /\ calls[c][i].ret.t = "raise"
        /\ calls[c][j].pass = "eager"

\* C5: a successful create() returns a tree with the nesting and the keys of
\* the original schema at every level, in which every eager leaf key holds
\* the value that the eager context handed to the lazy leaves of the call
\* holds at that path, and every lazy leaf key the value its generator
\* returned.
C5_MergedOutput ==
    \A c \in Callers :
        pc[c] = "done" =>
            /\ Shape(out[c]) = Shape(schema)
            /\ \A p \in EagerPaths :
                 /\ At(out[c], p) = At(eager_results[c], p)
                 /\ At(out[c], p).t \in {"str", "list"}
                 /\ \A i \in 1..Len(calls[c]) :
                      IsLazyLeaf(calls[c][i].node) =>
                         At(out[c], p) = At(calls[c][i].kwargs["_eager_data"], p)
            /\ \A p \in LazyPaths :
                 \E i \in CallsAt(c, p) : At(out[c], p) = calls[c][i].ret

\* C5 witness: the demo's owner group: create() returned a tree whose email
\* is the address made from the creator of the same tree
C5_Witness ==
    \E c \in Callers :
        /\ pc[c] = "done"
        /\ IsEagerLeaf(At(schema, <<"owner", "creator">>))
        /\ IsLazyLeaf(At(schema, <<"owner", "email">>))
        /\ IsEagerLeaf(At(schema, <<"pk">>))
        /\ At(out[c], <<"owner", "email">>)
             = StrValue(MaxValue + At(out[c], <<"owner", "creator">>).v)

\* C6: in one create() call no leaf is invoked twice, eager leaves are
\* invoked in pass 1 only and lazy leaves in pass 2 only, and a successful
\* call, the first as well as every further one, has invoked every leaf of
\* the original schema.
C6_ExactlyOnce ==
    \A c \in Callers :
        /\ \A i \in 1..Len(calls[c]) :
              LET e == calls[c][i]
              IN  /\ CallsAt(c, e.path) = {i}
                  /\ e.node = At(schema, e.path)
                  /\ e.pass = IF IsLazyLeaf(e.node) THEN "lazy" ELSE "eager"
        /\ pc[c] = "done" =>
              /\ \A p \in LeafPaths(schema) : Cardinality(CallsAt(c, p)) = 1
              /\ Len(calls[c]) = Cardinality(LeafPaths(schema))

\* C6 witness: a second create() on the same evaluator succeeded, having
\* invoked eager and lazy leaves again
C6_Witness ==
    \E c \in Callers :
        /\ ncreate[c] >= 2
        /\ pc[c] = "done"
        /\ LazyPaths # {}
        /\ Cardinality(EagerPaths) >= 2

\* C7: with two create() calls on one evaluator interleaved invocation by
\* invocation, the lazy leaves of a call are handed the eager results that
\* call built, made of the values its own eager invocations returned; the
\* tree a call returns is made of the values its own invocations returned;
\* and no step changes the stored eager_schema and lazy_schema.
C7_Isolation ==
    /\ [](\A c \in Callers :
            /\ \A i \in 1..Len(calls[c]) :
                 IsLazyLeaf(calls[c][i].node) =>
                    LET ctx == calls[c][i].kwargs["_eager_data"]
                    IN  /\ ctx = eager_results[c]
                        /\ \A p \in LeafPaths(ctx) :
                             \E j \in CallsAt(c, p) : At(ctx, p) = calls[c][j].ret
            /\ pc[c] = "done" =>
                 \A p \in LeafPaths(out[c]) :
                    \E j \in CallsAt(c, p) : At(out[c], p) = calls[c][j].ret)
    /\ [][eager_schema' = eager_schema /\ lazy_schema' = lazy_schema]_vars

\* C7 witness: both callers are in their lazy pass at once, their eager
\* results differ, and a lazy leaf of one of them has returned
C7_Witness ==
    /\ \A c \in Callers : pc[c] = "lazy"
    /\ eager_results["c1"] # eager_results["c2"]
    /\ \E i \in 1..Len(calls["c1"]) :
          IsLazyLeaf(calls["c1"][i].node) /\ calls["c1"][i].ret.t = "str"

RECURSIVE NoDuplicateKeys(_)
NoDuplicateKeys(x) ==
    x.t = "dict" =>
        /\ Cardinality(DictKeys(x)) = Len(x.items)
        /\ \A i \in 1..Len(x.items) : NoDuplicateKeys(x.items[i].v)

\* C3: for a schema whose leaves are all of an eager or a lazy class,
\* merging the eager extraction with the lazy extraction gives the key
\* structure of the schema at every level: the same group keys, the same leaf
\* keys, each bound to the same leaf triple, no leaf lost and none twice.
C3_ClassificationComplete ==
    (/\ fn = "classify"
     /\ \A p \in LeafPaths(arg.schema) :
            IsEagerLeaf(At(arg.schema, p)) \/ IsLazyLeaf(At(arg.schema, p)))
    => /\ res.t = "dict"
       /\ AsMap(res) = AsMap(arg.schema)
       /\ NoDuplicateKeys(res)
       /\ Len(leaf_calls(res)) = Cardinality(LeafPaths(arg.schema))

\* C3 witness: a schema with an eager leaf at the root and a group holding a
\* lazy leaf before an eager one was split and merged back
C3_Witness ==
    /\ fn = "classify"
    /\ IsEagerLeaf(At(arg.schema, <<"pk">>))
    /\ IsEagerLeaf(At(arg.schema, <<"owner", "creator">>))
    /\ IsLazyLeaf(At(arg.schema, <<"owner", "email">>))
    /\ res # arg.schema
    /\ AsMap(res) = AsMap(arg.schema)

\* {"owner": {"email": <lazy leaf>}}
OwnerEmailSchema ==
    [t |-> "dict", items |-> <<[k |-> "owner", v |->
        [t |-> "dict", items |-> <<[k |-> "email", v |-> EmailLeaf]>>]]>>]

\* {"owner": {}}
OwnerEmptySchema ==
    [t |-> "dict", items |-> <<[k |-> "owner", v |-> EmptyDict]>>]

\* C8: for any schema and any set of target classes, extraction keeps every
\* group key of the input at every level, as an empty group when the group
\* holds no leaf of a target class: {"owner": {"email": <lazy leaf>}}
\* extracted for the eager classes is {"owner": {}}.
C8_GroupsKept ==
    fn = "extract" =>
        /\ Skeleton(res) = Skeleton(arg.schema)
        /\ LeafPaths(res) =
             {p \in LeafPaths(arg.schema) : At(arg.schema, p).field \in arg.types}
        /\ (arg.schema = OwnerEmailSchema /\ arg.types = {"Field", "Fieldset"})
             => res = OwnerEmptySchema

\* C8 witness: the extraction of the eager classes from
\* {"owner": {"email": <lazy leaf>}} gave {"owner": {}}
C8_Witness ==
    /\ fn = "extract"
    /\ arg.schema = OwnerEmailSchema
    /\ arg.types = {"Field", "Fieldset"}
    /\ res = OwnerEmptySchema

RECURSIVE KeysAreUnion(_, _, _)
\* the keys of r are those of a and b together, at every level
KeysAreUnion(r, a, b) ==
    /\ r.t = "dict"
    /\ DictKeys(r) = DictKeys(a) \cup DictKeys(b)
    /\ \A k \in DictKeys(b) :
          DictGet(b, k, None).t = "dict" =>
             KeysAreUnion(DictGet(r, k, None),
                          IF DictGet(a, k, None).t = "dict"
                             THEN DictGet(a, k, None) ELSE EmptyDict,
                          DictGet(b, k, None))

\* C9: for any two result trees, a key holding a group in overlay and a
\* value in base included, merge(base, overlay) returns a tree, without
\* failing, whose keys are the union of the keys of base and of overlay at
\* every level and in which a key of base absent from overlay keeps the value
\* of base.
C9_MergeTotal ==
    fn = "merge" =>
        /\ res.t = "dict"
        /\ KeysAreUnion(res, arg.d1, arg.d2)
        /\ \A k \in DictKeys(arg.d1) \ DictKeys(arg.d2) :
              DictGet(res, k, None) = DictGet(arg.d1, k, None)

\* C10: wherever overlay holds a value at a key, at any level,
\* merge(base, overlay) holds that value at that key whatever base holds
\* there; and when base and overlay share no key, merge(base, overlay) and
\* merge(overlay, base) are the same mapping.
C10_OverlayWins ==
    fn = "merge" =>
        /\ \A p \in LeafPaths(arg.d2) :
              Len(p) > 0 => At(res, p) = At(arg.d2, p)
        /\ DictKeys(arg.d1) \cap DictKeys(arg.d2) = {}
              => AsMap(res) = AsMap(deep_merge(arg.d2, arg.d1))

====
